---- MODULE Spec2Model ----
(***************************************************************************)
(* A model of the near-membrane realm membrane: the outer-to-inner         *)
(* SecureProxyHandler and the inner-to-outer ReverseProxyHandler           *)
(* (src/unnamed/part_000), the evaluator returned by                       *)
(* createSecureEnvironment (src/src/node-realm.ts) and the distortion      *)
(* demo (src/unnamed/part_001).  The SecureEnvironment class itself        *)
(* (./environment) is not among the sources; its operations are modelled   *)
(* from section 4.1 of spec.md.                                            *)
(*                                                                         *)
(* Values.  A JavaScript value is a record:                                *)
(*   [t |-> "prim", id |-> s]            a primitive (s names it)          *)
(*   [t |-> "obj",  id |-> n]            the raw object named n of heap    *)
(*   [t |-> "inst", id |-> c, m |-> s]   an object built by constructor c  *)
(*                                       with message s                    *)
(*   [t |-> "proxy", dir |-> d, of |-> v, n |-> i]                         *)
(*                                       the i-th proxy the Environment    *)
(*                                       made for v, d = "secure" (lives   *)
(*                                       in the inner realm) or "reverse"  *)
(*                                       (lives in the outer realm)        *)
(***************************************************************************)
EXTENDS Integers, Sequences, FiniteSets, TLC

VARIABLES
    env,    \* the Environment [rom, som, px] and, as heap, the raw objects
            \* of both realms it mediates between: name -> shape
    secureGlobalThis, \* the sandbox's global object (node-realm.ts:14)
    leak,   \* non-inner values the inner realm's code has been handed
    last,   \* what the last operation did and gave back
    ops     \* how many operations have been performed

vars == <<env, secureGlobalThis, leak, last, ops>>

\* How many operations a run performs.
MaxOps == 2

Prim(s) == [t |-> "prim", id |-> s]
Obj(n) == [t |-> "obj", id |-> n]
Inst(c, s) == [t |-> "inst", id |-> c, m |-> s]
Proxy(d, v, i) == [t |-> "proxy", dir |-> d, of |-> v, n |-> i]

Undefined == Prim("undefined")
Null == Prim("null")

\* part_000:50-56: isUndefined, isFunction
isUndefined(v) == v = Undefined

IsPrim(v) == v.t = "prim"
IsProxy(v) == v.t = "proxy"
IsRaw(v) == v.t \in {"obj", "inst"}

NoProps == [k \in {} |-> TRUE]

DataDesc(v, w, e, c) == [k |-> "data", value |-> v, w |-> w, e |-> e, c |-> c]
AccDesc(g, s, e, c) == [k |-> "acc", get |-> g, set |-> s, e |-> e, c |-> c]

Shape(r, f, p, ps, x) == [realm |-> r, fn |-> f, proto |-> p, props |-> ps, ext |-> x]

(***************************************************************************)
(* The two realms' object graphs the membrane is exercised on.  fn is the  *)
(* behaviour of a function when it runs ("none" for a plain object).       *)
(***************************************************************************)
OuterHeap ==
    \* Object.prototype with one of its writable, configurable data properties
    ("OProto" :> Shape("outer", "none", Null,
        ("kind" :> DataDesc(Prim("object"), TRUE, FALSE, TRUE)), TRUE)) @@
    ("OErrProto" :> Shape("outer", "none", Obj("OProto"),
        ("constructor" :> DataDesc(Obj("OError"), TRUE, FALSE, TRUE)), TRUE)) @@
    ("OError" :> Shape("outer", "ctor", Null,
        ("prototype" :> DataDesc(Obj("OErrProto"), FALSE, FALSE, FALSE)), TRUE)) @@
    ("OTypeErrProto" :> Shape("outer", "none", Obj("OErrProto"),
        ("constructor" :> DataDesc(Obj("OTypeError"), TRUE, FALSE, TRUE)), TRUE)) @@
    ("OTypeError" :> Shape("outer", "ctor", Null,
        ("prototype" :> DataDesc(Obj("OTypeErrProto"), FALSE, FALSE, FALSE)), TRUE)) @@
    ("ONumProto" :> Shape("outer", "none", Obj("OProto"),
        ("constructor" :> DataDesc(Obj("ONumber"), TRUE, FALSE, TRUE)), TRUE)) @@
    ("ONumber" :> Shape("outer", "ctor", Null,
        ("prototype" :> DataDesc(Obj("ONumProto"), FALSE, FALSE, FALSE)), TRUE)) @@
    \* part_001:4-14: fetch, its stand-in, and the wrapper that calls fetch
    ("Fetch" :> Shape("outer", "fetch", Null, NoProps, TRUE)) @@
    ("Stub" :> Shape("outer", "forbidden", Null, NoProps, TRUE)) @@
    ("WrappedFetch" :> Shape("outer", "callFetch", Null, NoProps, TRUE)) @@
    ("Thrower" :> Shape("outer", "throwError", Null,
        ("name" :> DataDesc(Prim("thrower"), FALSE, FALSE, TRUE)), TRUE)) @@
    ("Ident" :> Shape("outer", "ident", Null, NoProps, TRUE)) @@
    ("Getter" :> Shape("outer", "returnThis", Null, NoProps, TRUE)) @@
    ("Obj" :> Shape("outer", "none", Obj("OProto"),
        ("a" :> DataDesc(Prim("1"), TRUE, TRUE, TRUE)) @@
        ("self" :> DataDesc(Obj("Obj"), TRUE, TRUE, TRUE)) @@
        ("g" :> AccDesc(Obj("Getter"), Undefined, TRUE, TRUE)) @@
        ("s" :> AccDesc(Undefined, Obj("Ident"), TRUE, TRUE)), TRUE)) @@
    \* Object.freeze({a: 1})
    ("Frozen" :> Shape("outer", "none", Obj("OProto"),
        ("a" :> DataDesc(Prim("1"), FALSE, TRUE, FALSE)), FALSE))

InnerHeap ==
    ("IProto" :> Shape("inner", "none", Null, NoProps, TRUE)) @@
    ("IErrProto" :> Shape("inner", "none", Obj("IProto"),
        ("constructor" :> DataDesc(Obj("IError"), TRUE, FALSE, TRUE)), TRUE)) @@
    ("IError" :> Shape("inner", "ctor", Null,
        ("prototype" :> DataDesc(Obj("IErrProto"), FALSE, FALSE, FALSE)), TRUE)) @@
    ("ITypeErrProto" :> Shape("inner", "none", Obj("IErrProto"),
        ("constructor" :> DataDesc(Obj("ITypeError"), TRUE, FALSE, TRUE)), TRUE)) @@
    ("ITypeError" :> Shape("inner", "ctor", Null,
        ("prototype" :> DataDesc(Obj("ITypeErrProto"), FALSE, FALSE, FALSE)), TRUE)) @@
    ("IObj" :> Shape("inner", "none", Null,
        ("a" :> DataDesc(Prim("2"), TRUE, TRUE, TRUE)), TRUE)) @@
    ("IFn" :> Shape("inner", "ident", Null, NoProps, TRUE)) @@
    \* stands for the fresh object a function expression gets as its
    \* own 'prototype' (the shadow function of part_000:298)
    ("IShadowProto" :> Shape("inner", "none", Obj("IProto"), NoProps, TRUE))

Heap0 == OuterHeap @@ InnerHeap

\* node-realm.ts:16-17: the own properties of the outer global object
\* (part_001:4-5 adds originalFetch, the same identity as fetch)
GlobalDescriptors ==
    ("fetch" :> DataDesc(Obj("Fetch"), TRUE, TRUE, TRUE)) @@
    ("originalFetch" :> DataDesc(Obj("Fetch"), TRUE, TRUE, TRUE)) @@
    ("wrappedFetch" :> DataDesc(Obj("WrappedFetch"), TRUE, TRUE, TRUE)) @@
    ("thrower" :> DataDesc(Obj("Thrower"), TRUE, TRUE, TRUE)) @@
    ("ident" :> DataDesc(Obj("Ident"), TRUE, TRUE, TRUE)) @@
    ("obj" :> DataDesc(Obj("Obj"), TRUE, TRUE, TRUE)) @@
    ("frozen" :> DataDesc(Obj("Frozen"), TRUE, TRUE, TRUE)) @@
    ("HostError" :> DataDesc(Obj("OError"), TRUE, TRUE, TRUE))

\* part_001:7-14: the distortion map, real function -> stand-in
distortionMap == (Obj("Fetch") :> Obj("Stub"))

(***************************************************************************)
(* Shapes of raw values and the ordinary (non-proxy) object operations.    *)
(***************************************************************************)
PrototypeOfCtor(E, c) ==
    IF "prototype" \in DOMAIN E.heap[c].props
    THEN E.heap[c].props["prototype"].value ELSE Null

\* the shape of a raw value in its home realm; an instance built by a
\* constructor carries its message as an own data property
ShapeOf(E, v) ==
    IF v.t = "obj" THEN E.heap[v.id]
    ELSE Shape(E.heap[v.id].realm, "none", PrototypeOfCtor(E, v.id),
               IF v.m = "undefined" THEN NoProps
               ELSE ("message" :> DataDesc(Prim(v.m), TRUE, FALSE, TRUE)),
               TRUE)

RealmOf(E, v) ==
    CASE v.t = "prim" -> "none"
      [] v.t = "proxy" -> (IF v.dir = "secure" THEN "inner" ELSE "outer")
      [] OTHER -> E.heap[v.id].realm

\* Object.isSealed / Object.isFrozen of a shape
ShapeIsSealed(s) == ~s.ext /\ \A k \in DOMAIN s.props : ~s.props[k].c
ShapeIsFrozen(s) ==
    /\ ShapeIsSealed(s)
    /\ \A k \in DOMAIN s.props : s.props[k].k = "data" => ~s.props[k].w

\* [[DefineOwnProperty]] of an ordinary object (ValidateAndApplyProperty-
\* Descriptor) for a complete descriptor: [ok, s]
OrdinaryDefine(s, key, d) ==
    IF key \notin DOMAIN s.props
    THEN IF s.ext
         THEN [ok |-> TRUE, s |-> [s EXCEPT !.props = (key :> d) @@ @]]
         ELSE [ok |-> FALSE, s |-> s]
    ELSE LET cur == s.props[key] IN
         IF cur.c \/ cur = d
         THEN [ok |-> TRUE, s |-> [s EXCEPT !.props = (key :> d) @@ @]]
         ELSE IF \/ d.c
                 \/ d.e # cur.e
                 \/ d.k # cur.k
                 \/ (cur.k = "acc" /\ (d.get # cur.get \/ d.set # cur.set))
                 \/ (cur.k = "data" /\ ~cur.w /\ (d.w \/ d.value # cur.value))
              THEN [ok |-> FALSE, s |-> s]
              ELSE [ok |-> TRUE, s |-> [s EXCEPT !.props = (key :> d) @@ @]]

\* [[Delete]] of an ordinary object: [ok, s]
OrdinaryDelete(s, key) ==
    IF key \notin DOMAIN s.props THEN [ok |-> TRUE, s |-> s]
    ELSE IF s.props[key].c
         THEN [ok |-> TRUE,
               s |-> [s EXCEPT !.props = [k \in DOMAIN @ \ {key} |-> @[k]]]]
         ELSE [ok |-> FALSE, s |-> s]

\* Object.freeze / Object.seal / Reflect.preventExtensions
FreezeShape(s) ==
    [s EXCEPT !.ext = FALSE,
              !.props = [k \in DOMAIN @ |->
                  IF @[k].k = "data" THEN [@[k] EXCEPT !.c = FALSE, !.w = FALSE]
                  ELSE [@[k] EXCEPT !.c = FALSE]]]
SealShape(s) ==
    [s EXCEPT !.ext = FALSE,
              !.props = [k \in DOMAIN @ |-> [@[k] EXCEPT !.c = FALSE]]]
PreventExtensionsShape(s) == [s EXCEPT !.ext = FALSE]

\* the message a constructor is given: its first argument when a primitive
MessageOf(args) ==
    IF Len(args) >= 1 /\ IsPrim(args[1]) THEN args[1].id ELSE "undefined"

\* the Error and TypeError constructors of a realm
ErrorOf(realm) == IF realm = "inner" THEN "IError" ELSE "OError"
TypeErrorOf(realm) == IF realm = "inner" THEN "ITypeError" ELSE "OTypeError"

Return(E, v, ran) == [e |-> E, k |-> "return", v |-> v, ran |-> ran]
Throw(E, v, ran) == [e |-> E, k |-> "throw", v |-> v, ran |-> ran]

\* const v = val; Body(v): val is evaluated once, whatever Body does with v
Bind(val, Body(_)) == CHOOSE r \in {Body(v) : v \in {val}} : TRUE

\* the Environment with one more entry in the log of the calls of raw
\* functions: which function, with which this and arguments, and how it ended
Logged(E, f, thisArg, args, k, v) ==
    [E EXCEPT !.calls = Append(@, [f |-> f, this |-> thisArg, args |-> args,
                                   k |-> k, v |-> v])]

\* what a raw function does when it runs in its home realm (part_001:4-14
\* for fetch, its stand-in and the wrapper); ran lists the raw functions
\* that ran
RunRaw(E, f, thisArg, args) ==
    LET b == E.heap[f.id].fn IN
    CASE b = "fetch" -> Return(E, Prim("response"), <<f.id>>)
      [] b = "forbidden" -> Return(E, Undefined, <<f.id>>)
      [] b = "callFetch" -> Return(E, Prim("response"), <<f.id, "Fetch">>)
      [] b = "throwError" ->
            Throw(E, Inst(ErrorOf(E.heap[f.id].realm), "boom"), <<f.id>>)
      [] b = "ident" ->
            Return(E, IF Len(args) >= 1 THEN args[1] ELSE Undefined, <<f.id>>)
      [] b = "returnThis" -> Return(E, thisArg, <<f.id>>)
      [] OTHER -> Return(E, Inst(f.id, MessageOf(args)), <<f.id>>)

\* Reflect.apply on a raw function, logged
CallRaw(E, f, thisArg, args) ==
    Bind(RunRaw(E, f, thisArg, args), LAMBDA r :
         [r EXCEPT !.e = Logged(r.e, f, thisArg, args, r.k, r.v)])

\* Reflect.construct on a raw function: only "ctor" functions construct,
\* the others are arrow functions and the caller's realm raises a TypeError
ConstructRaw(E, f, args, callerRealm) ==
    IF E.heap[f.id].fn = "ctor"
    THEN Return(E, Inst(f.id, MessageOf(args)), <<f.id>>)
    ELSE Throw(E, Inst(TypeErrorOf(callerRealm), "not a constructor"), <<>>)

(***************************************************************************)
(* Shape snapshot, shadow targets and proxy creation.                      *)
(***************************************************************************)
\* typeof v === 'function' (part_000:54-56)
isFunction(E, v) ==
    CASE v.t = "obj" -> E.heap[v.id].fn # "none"
      [] v.t = "proxy" -> E.px[v].shadow.fn # "none"
      [] OTHER -> FALSE

\* the Shape Snapshot (TargetMeta) of a raw value, spec.md section 3
getTargetMeta(E, v) ==
    LET s == ShapeOf(E, v) IN
    [proto |-> s.proto, descriptors |-> s.props, isExtensible |-> s.ext,
     isSealed |-> ShapeIsSealed(s), isFrozen |-> ShapeIsFrozen(s)]

\* the own property descriptor of a shape, undefined when it has none
OwnDescriptor(s, key) ==
    IF key \in DOMAIN s.props THEN s.props[key] ELSE Undefined

\* the outer functions that do not let their 'name' descriptor be read:
\* the getter of obj.g is a proxy whose getOwnPropertyDescriptor trap throws
\* (part_000:61, 65-67)
NameUnreadable == {"Getter"}

\* part_000:62: getOwnPropertyDescriptor(provider, 'name'), which throws
\* for such a provider
GetOwnName(E, provider) ==
    IF provider.t = "obj" /\ provider.id \in NameUnreadable
    THEN [k |-> "throw", v |-> Inst("OTypeError", "name is not readable")]
    ELSE [k |-> "return", v |-> OwnDescriptor(ShapeOf(E, provider), "name")]

\* renameFunction taking what the read produced, the error it threw
\* included, for the name
renameFunction_named(E, provider, receiver) ==
    Bind(GetOwnName(E, provider), LAMBDA r :
         IF r.k = "throw"
         THEN OrdinaryDefine(receiver, "name",
                             DataDesc(Prim(r.v.m), FALSE, FALSE, TRUE)).s
         ELSE IF ~isUndefined(r.v)
              THEN OrdinaryDefine(receiver, "name", r.v).s
              ELSE receiver)

\* part_000:58-71: nameDescriptor stays undefined when the read throws
renameFunction(E, provider, receiver) ==
    Bind(GetOwnName(E, provider), LAMBDA r :
    Bind(IF r.k = "throw" THEN Undefined ELSE r.v, LAMBDA nameDescriptor :
         IF ~isUndefined(nameDescriptor)
         THEN OrdinaryDefine(receiver, "name", nameDescriptor).s
         ELSE receiver))

\* part_000:294-305: function () {} for a function, {} for an object, both
\* made in the inner realm
createSecureShadowTarget(E, target) ==
    IF target.t = "obj" /\ E.heap[target.id].fn # "none"
    THEN renameFunction(E, target,
            Shape("inner", "shadow", Obj("IProto"),
                  ("prototype" :> DataDesc(Obj("IShadowProto"), TRUE, FALSE, FALSE)),
                  TRUE))
    ELSE Shape("inner", "none", Obj("IProto"), NoProps, TRUE)

\* createSecureProxy copying the snapshot's descriptors onto the shadow
\* target when it makes the proxy
createSecureProxy_eager(E, raw, meta) ==
    [target |-> raw, meta |-> meta, init |-> FALSE, frozen |-> FALSE,
     copies |-> 1,
     shadow |-> [createSecureShadowTarget(E, raw) EXCEPT
                    !.props = meta.descriptors @@ @]]

\* part_000:135-144 and 307-311: the handler's fields and the shadow target
\* the revocable proxy is made of; init is FALSE while initialize is still
\* the method of part_000:148, frozen is freeze(this)
createSecureProxy(E, raw, meta) ==
    [target |-> raw, meta |-> meta, init |-> FALSE, frozen |-> FALSE,
     copies |-> 0, shadow |-> createSecureShadowTarget(E, raw)]

\* the placeholder a reverse proxy is made on, in the outer realm
\* (spec.md section 3, Shadow Target)
createReverseShadowTarget(E, target) ==
    IF target.t = "obj" /\ E.heap[target.id].fn # "none"
    THEN Shape("outer", "shadow", Obj("OProto"),
               ("prototype" :> DataDesc(Obj("OProto"), TRUE, FALSE, FALSE)), TRUE)
    ELSE Shape("outer", "none", Obj("OProto"), NoProps, TRUE)

\* part_000:395-407 and 451-455: new ReverseProxyHandler(env, target, meta)
createReverseProxyHandler(E, target, meta) ==
    [target |-> target, meta |-> meta, init |-> FALSE, frozen |-> FALSE,
     copies |-> 0, shadow |-> createReverseShadowTarget(E, target)]

(***************************************************************************)
(* The Environment (spec.md section 4.1).  rom maps what lives in the      *)
(* outer realm to its inner counterpart, som maps what lives in the inner  *)
(* realm to its outer counterpart; creating a proxy records the pair in    *)
(* both.  A distorted value is recorded under its own identity and the     *)
(* proxy is made on its substitute.                                        *)
(***************************************************************************)
NextSerial(E, d, v) == Cardinality({p \in DOMAIN E.px : p.dir = d /\ p.of = v})

getDistortedValue(v) ==
    IF v \in DOMAIN distortionMap THEN distortionMap[v] ELSE v

EnvCreateSecureProxy(E, v) ==
    LET d == getDistortedValue(v)
        p == Proxy("secure", v, NextSerial(E, "secure", v))
    IN  [e |-> [E EXCEPT !.rom = (v :> p) @@ @,
                         !.som = (p :> v) @@ @,
                         !.px = (p :> createSecureProxy(E, d, getTargetMeta(E, d))) @@ @],
         v |-> p]

EnvCreateReverseProxy(E, v) ==
    LET p == Proxy("reverse", v, NextSerial(E, "reverse", v))
    IN  [e |-> [E EXCEPT !.rom = (p :> v) @@ @,
                         !.som = (v :> p) @@ @,
                         !.px = (p :> createReverseProxyHandler(E, v, getTargetMeta(E, v))) @@ @],
         v |-> p]

\* valueForOtherRealm, outer to inner
getSecureValue(E, v) ==
    IF IsPrim(v) THEN [e |-> E, v |-> v]
    ELSE IF v \in DOMAIN E.rom THEN [e |-> E, v |-> E.rom[v]]
    ELSE EnvCreateSecureProxy(E, v)

\* functionForOtherRealm, outer to inner: the caller has checked isFunction
getSecureFunction(E, fn) ==
    IF fn \in DOMAIN E.rom THEN [e |-> E, v |-> E.rom[fn]]
    ELSE EnvCreateSecureProxy(E, fn)

\* valueForOtherRealm / rawValue, inner to outer
getRawValue(E, v) ==
    IF IsPrim(v) THEN [e |-> E, v |-> v]
    ELSE IF v \in DOMAIN E.som THEN [e |-> E, v |-> E.som[v]]
    ELSE EnvCreateReverseProxy(E, v)

getRawFunction(E, fn) ==
    IF fn \in DOMAIN E.som THEN [e |-> E, v |-> E.som[fn]]
    ELSE EnvCreateReverseProxy(E, fn)

\* arrayForOtherRealm: element-wise, [e, v] with v the new sequence
RECURSIVE getSecureArray(_, _)
getSecureArray(E, items) ==
    IF items = <<>> THEN [e |-> E, v |-> <<>>]
    ELSE Bind(getSecureValue(E, Head(items)), LAMBDA h :
         Bind(getSecureArray(h.e, Tail(items)), LAMBDA t :
              [e |-> t.e, v |-> <<h.v>> \o t.v]))

RECURSIVE getRawArray(_, _)
getRawArray(E, items) ==
    IF items = <<>> THEN [e |-> E, v |-> <<>>]
    ELSE Bind(getRawValue(E, Head(items)), LAMBDA h :
         Bind(getRawArray(h.e, Tail(items)), LAMBDA t :
              [e |-> t.e, v |-> <<h.v>> \o t.v]))

(***************************************************************************)
(* SecureProxyHandler (part_000:73-290), the outer-to-inner handler.  A    *)
(* trap takes the Environment E and the proxy p it is the handler of and   *)
(* gives [e, k, v, ran]: the Environment after it, "return" or "throw",    *)
(* the value, and the raw functions that ran.                              *)
(***************************************************************************)
ShadowRef(p) == [t |-> "shadow", of |-> p]

\* part_000:73-90
installDescriptorIntoShadowTarget(shadowTarget, key, originalDescriptor) ==
    IF key \in DOMAIN shadowTarget.props
    THEN IF shadowTarget.props[key].c
         THEN OrdinaryDefine(shadowTarget, key, originalDescriptor).s
         ELSE IF shadowTarget.props[key].k = "data" /\ shadowTarget.props[key].w
              THEN [shadowTarget EXCEPT !.props[key].value =
                       IF originalDescriptor.k = "data"
                       THEN originalDescriptor.value ELSE Undefined]
              ELSE shadowTarget
    ELSE OrdinaryDefine(shadowTarget, key, originalDescriptor).s

\* getSecureDescriptor making a proxy for the value without asking the
\* Environment whether it already has one
getSecureDescriptor_fresh(E, descriptor) ==
    IF descriptor.k = "data"
    THEN Bind(IF IsPrim(descriptor.value)
              THEN [e |-> E, v |-> descriptor.value]
              ELSE EnvCreateSecureProxy(E, descriptor.value), LAMBDA r :
              [e |-> r.e, v |-> [descriptor EXCEPT !.value = r.v]])
    ELSE Bind(IF isFunction(E, descriptor.set)
              THEN getSecureFunction(E, descriptor.set)
              ELSE [e |-> E, v |-> descriptor.set], LAMBDA s :
         Bind(IF isFunction(s.e, descriptor.get)
              THEN getSecureFunction(s.e, descriptor.get)
              ELSE [e |-> s.e, v |-> descriptor.get], LAMBDA g :
              [e |-> g.e, v |-> [descriptor EXCEPT !.set = s.v, !.get = g.v]]))

\* part_000:92-110: [e, v] with v the secure descriptor
getSecureDescriptor(E, descriptor) ==
    IF descriptor.k = "data"
    THEN Bind(IF isFunction(E, descriptor.value)
              THEN getSecureFunction(E, descriptor.value)
              ELSE getSecureValue(E, descriptor.value), LAMBDA r :
              [e |-> r.e, v |-> [descriptor EXCEPT !.value = r.v]])
    ELSE Bind(IF isFunction(E, descriptor.set)
              THEN getSecureFunction(E, descriptor.set)
              ELSE [e |-> E, v |-> descriptor.set], LAMBDA s :
         Bind(IF isFunction(s.e, descriptor.get)
              THEN getSecureFunction(s.e, descriptor.get)
              ELSE [e |-> s.e, v |-> descriptor.get], LAMBDA g :
              [e |-> g.e, v |-> [descriptor EXCEPT !.set = s.v, !.get = g.v]]))

\* part_000:125-133: the Environment after the descriptors named by keys
\* are installed into the shadow target of p
RECURSIVE copySecureOwnDescriptorsFrom(_, _, _, _)
copySecureOwnDescriptorsFrom(E, p, descriptors, keys) ==
    IF keys = {} THEN E
    ELSE Bind(CHOOSE k \in keys : TRUE, LAMBDA key :
         Bind(getSecureDescriptor(E, descriptors[key]), LAMBDA originalDescriptor :
         Bind([originalDescriptor.e EXCEPT !.px[p].shadow =
                 installDescriptorIntoShadowTarget(@, key, originalDescriptor.v)],
              LAMBDA E1 :
              copySecureOwnDescriptorsFrom(E1, p, descriptors, keys \ {key}))))

copySecureOwnDescriptors(E, p, descriptors) ==
    copySecureOwnDescriptorsFrom([E EXCEPT !.px[p].copies = @ + 1],
                                 p, descriptors, DOMAIN descriptors)

\* initialize making a proxy of the prototype without asking the
\* Environment whether it already has one
initialize_fresh(E, p) ==
    IF E.px[p].init THEN E
    ELSE Bind(IF IsPrim(E.px[p].meta.proto)
              THEN [e |-> [E EXCEPT !.px[p].init = TRUE], v |-> E.px[p].meta.proto]
              ELSE EnvCreateSecureProxy([E EXCEPT !.px[p].init = TRUE],
                                        E.px[p].meta.proto),
              LAMBDA secProto :
         Bind(copySecureOwnDescriptors(
                 [secProto.e EXCEPT !.px[p].shadow.proto = secProto.v],
                 p, E.px[p].meta.descriptors), LAMBDA E3 :
              [E3 EXCEPT !.px[p].shadow =
                          IF E.px[p].meta.isFrozen THEN FreezeShape(@)
                          ELSE IF E.px[p].meta.isSealed THEN SealShape(@)
                          ELSE IF ~E.px[p].meta.isExtensible
                               THEN PreventExtensionsShape(@)
                               ELSE @,
                         !.px[p].frozen = TRUE]))

\* initialize mirroring a frozen snapshot only
initialize_freezeOnly(E, p) ==
    IF E.px[p].init THEN E
    ELSE Bind(getSecureValue([E EXCEPT !.px[p].init = TRUE], E.px[p].meta.proto),
              LAMBDA secProto :
         Bind(copySecureOwnDescriptors(
                 [secProto.e EXCEPT !.px[p].shadow.proto = secProto.v],
                 p, E.px[p].meta.descriptors), LAMBDA E3 :
              [E3 EXCEPT !.px[p].shadow =
                          IF E.px[p].meta.isFrozen THEN FreezeShape(@) ELSE @,
                         !.px[p].frozen = TRUE]))

\* part_000:148-167
initialize(E, p) ==
    IF E.px[p].init THEN E
    ELSE Bind(getSecureValue([E EXCEPT !.px[p].init = TRUE], E.px[p].meta.proto),
              LAMBDA secProto :
         Bind(copySecureOwnDescriptors(
                 [secProto.e EXCEPT !.px[p].shadow.proto = secProto.v],
                 p, E.px[p].meta.descriptors), LAMBDA E3 :
              [E3 EXCEPT !.px[p].shadow =
                          IF E.px[p].meta.isFrozen THEN FreezeShape(@)
                          ELSE IF E.px[p].meta.isSealed THEN SealShape(@)
                          ELSE IF ~E.px[p].meta.isExtensible
                               THEN PreventExtensionsShape(@)
                               ELSE @,
                         !.px[p].frozen = TRUE]))

\* part_000:361-379: [e, v] with v the reverse descriptor
getReverseDescriptor(E, descriptor) ==
    IF descriptor.k = "data"
    THEN Bind(IF isFunction(E, descriptor.value)
              THEN getRawFunction(E, descriptor.value)
              ELSE getRawValue(E, descriptor.value), LAMBDA r :
              [e |-> r.e, v |-> [descriptor EXCEPT !.value = r.v]])
    ELSE Bind(IF isFunction(E, descriptor.set)
              THEN getRawFunction(E, descriptor.set)
              ELSE [e |-> E, v |-> descriptor.set], LAMBDA s :
         Bind(IF isFunction(s.e, descriptor.get)
              THEN getRawFunction(s.e, descriptor.get)
              ELSE [e |-> s.e, v |-> descriptor.get], LAMBDA g :
              [e |-> g.e, v |-> [descriptor EXCEPT !.set = s.v, !.get = g.v]]))

\* part_000:381-389
RECURSIVE copyReverseOwnDescriptorsFrom(_, _, _, _)
copyReverseOwnDescriptorsFrom(E, p, descriptors, keys) ==
    IF keys = {} THEN E
    ELSE Bind(CHOOSE k \in keys : TRUE, LAMBDA key :
         Bind(getReverseDescriptor(E, descriptors[key]), LAMBDA originalDescriptor :
         Bind([originalDescriptor.e EXCEPT !.px[p].shadow =
                 installDescriptorIntoShadowTarget(@, key, originalDescriptor.v)],
              LAMBDA E1 :
              copyReverseOwnDescriptorsFrom(E1, p, descriptors, keys \ {key}))))

copyReverseOwnDescriptors(E, p, descriptors) ==
    copyReverseOwnDescriptorsFrom([E EXCEPT !.px[p].copies = @ + 1],
                                  p, descriptors, DOMAIN descriptors)

\* part_000:408-419: the method does not test or replace itself; it sets
\* the prototype (which a frozen shadow target refuses unless it is the one
\* it has), copies the descriptors, freezes the shadow target and the
\* handler
ReverseProxyHandler_initialize(E, p) ==
    Bind(getRawValue(E, E.px[p].meta.proto), LAMBDA rawProto :
    Bind(copyReverseOwnDescriptors(
            IF rawProto.e.px[p].shadow.ext
            THEN [rawProto.e EXCEPT !.px[p].shadow.proto = rawProto.v]
            ELSE rawProto.e,
            p, E.px[p].meta.descriptors), LAMBDA E3 :
         [E3 EXCEPT !.px[p].shadow = FreezeShape(@),
                    !.px[p].init = TRUE,
                    !.px[p].frozen = TRUE]))

\* part_000:262-266
SecureProxyHandler_getOwnPropertyDescriptor(E, p, key) ==
    Bind(initialize(E, p), LAMBDA E1 :
         Return(E1, OwnDescriptor(E1.px[p].shadow, key), <<>>))

\* part_000:267-271
SecureProxyHandler_getPrototypeOf(E, p) ==
    Bind(initialize(E, p), LAMBDA E1 : Return(E1, E1.px[p].shadow.proto, <<>>))

\* Reflect.getOwnPropertyDescriptor (part_000:37) on a shadow target, a
\* proxy (its trap, or its shadow target when the handler has none) or a
\* raw object: [e, v]
Reflect_getOwnPropertyDescriptor(E, o, key) ==
    CASE o.t = "shadow" -> [e |-> E, v |-> OwnDescriptor(E.px[o.of].shadow, key)]
      [] o.t = "proxy" /\ o.dir = "secure" ->
            Bind(SecureProxyHandler_getOwnPropertyDescriptor(E, o, key),
                 LAMBDA r : [e |-> r.e, v |-> r.v])
      [] o.t = "proxy" /\ o.dir = "reverse" ->
            [e |-> E, v |-> OwnDescriptor(E.px[o].shadow, key)]
      [] OTHER -> [e |-> E, v |-> OwnDescriptor(ShapeOf(E, o), key)]

\* Reflect.getPrototypeOf (part_000:39): [e, v]
Reflect_getPrototypeOf(E, o) ==
    CASE o.t = "shadow" -> [e |-> E, v |-> E.px[o.of].shadow.proto]
      [] o.t = "proxy" /\ o.dir = "secure" ->
            Bind(SecureProxyHandler_getPrototypeOf(E, o),
                 LAMBDA r : [e |-> r.e, v |-> r.v])
      [] o.t = "proxy" /\ o.dir = "reverse" -> [e |-> E, v |-> E.px[o].shadow.proto]
      [] OTHER -> [e |-> E, v |-> ShapeOf(E, o).proto]

\* part_000:113-123: [e, v]
RECURSIVE getPropertyDescriptor(_, _, _)
getPropertyDescriptor(E, o, p) ==
    Bind(Reflect_getOwnPropertyDescriptor(E, o, p), LAMBDA d :
         IF ~isUndefined(d.v) THEN d
         ELSE Bind(Reflect_getPrototypeOf(d.e, o), LAMBDA proto :
                   IF proto.v = Null THEN [e |-> proto.e, v |-> Undefined]
                   ELSE getPropertyDescriptor(proto.e, proto.v, p)))

\* apply sending its result through getSecureFunction, which makes a proxy
\* without checking for a primitive: new Proxy on a primitive is a TypeError
SecureProxyHandler_apply_asFunction(E, p, thisArg, argArray) ==
    Bind(initialize(E, p), LAMBDA E1 :
    Bind(getRawValue(E1, thisArg), LAMBDA rawThisArg :
    Bind(getRawArray(rawThisArg.e, argArray), LAMBDA rawArgArray :
    Bind(CallRaw(rawArgArray.e, E.px[p].target, rawThisArg.v, rawArgArray.v),
         LAMBDA raw :
         IF raw.k = "throw" THEN raw
         ELSE IF IsPrim(raw.v)
              THEN Throw(raw.e, Inst(TypeErrorOf("outer"), "not an object"), raw.ran)
              ELSE Bind(getSecureFunction(raw.e, raw.v), LAMBDA sec :
                        Return(sec.e, sec.v, raw.ran))))))

\* apply calling the function the proxy stands for instead of the target
\* the handler was made with
SecureProxyHandler_apply_original(E, p, thisArg, argArray) ==
    Bind(initialize(E, p), LAMBDA E1 :
    Bind(getRawValue(E1, thisArg), LAMBDA rawThisArg :
    Bind(getRawArray(rawThisArg.e, argArray), LAMBDA rawArgArray :
    Bind(CallRaw(rawArgArray.e, E.som[p], rawThisArg.v, rawArgArray.v),
         LAMBDA raw :
         IF raw.k = "throw" THEN raw
         ELSE Bind(getSecureValue(raw.e, raw.v), LAMBDA sec :
                   Return(sec.e, sec.v, raw.ran))))))

\* part_000:217-230
\* apply passing the arguments as it received them
SecureProxyHandler_apply_sameArgs(E, p, thisArg, argArray) ==
    Bind(initialize(E, p), LAMBDA E1 :
    Bind(getRawValue(E1, thisArg), LAMBDA rawThisArg :
    Bind(CallRaw(rawThisArg.e, E.px[p].target, rawThisArg.v, argArray),
         LAMBDA raw :
         IF raw.k = "throw" THEN raw
         ELSE Bind(getSecureValue(raw.e, raw.v), LAMBDA sec :
                   Return(sec.e, sec.v, raw.ran)))))

SecureProxyHandler_apply(E, p, thisArg, argArray) ==
    Bind(initialize(E, p), LAMBDA E1 :
    Bind(getRawValue(E1, thisArg), LAMBDA rawThisArg :
    Bind(getRawArray(rawThisArg.e, argArray), LAMBDA rawArgArray :
    Bind(CallRaw(rawArgArray.e, E.px[p].target, rawThisArg.v, rawArgArray.v),
         LAMBDA raw :
         IF raw.k = "throw" THEN raw
         ELSE Bind(getSecureValue(raw.e, raw.v), LAMBDA sec :
                   Return(sec.e, sec.v, raw.ran))))))

\* construct without the check of newTarget
SecureProxyHandler_construct_unguarded(E, p, argArray, newTarget) ==
    Bind(initialize(E, p), LAMBDA E1 :
    Bind(getRawArray(E1, argArray), LAMBDA rawArgArray :
    Bind(getRawValue(rawArgArray.e, newTarget), LAMBDA rawNewTarget :
    Bind(ConstructRaw(rawNewTarget.e, E.px[p].target, rawArgArray.v, "inner"),
         LAMBDA raw :
         IF raw.k = "throw" THEN raw
         ELSE Bind(getSecureValue(raw.e, raw.v), LAMBDA sec :
                   Return(sec.e, sec.v, raw.ran))))))

\* part_000:231-247
SecureProxyHandler_construct(E, p, argArray, newTarget) ==
    Bind(initialize(E, p), LAMBDA E1 :
         IF isUndefined(newTarget)
         THEN Throw(E1, Inst(TypeErrorOf("inner"), "undefined"), <<>>)
         ELSE
    Bind(getRawArray(E1, argArray), LAMBDA rawArgArray :
    Bind(getRawValue(rawArgArray.e, newTarget), LAMBDA rawNewTarget :
    Bind(ConstructRaw(rawNewTarget.e, E.px[p].target, rawArgArray.v, "inner"),
         LAMBDA raw :
         IF raw.k = "throw" THEN raw
         ELSE Bind(getSecureValue(raw.e, raw.v), LAMBDA sec :
                   Return(sec.e, sec.v, raw.ran))))))

(***************************************************************************)
(* ReverseProxyHandler (part_000:395-447), the inner-to-outer handler.     *)
(***************************************************************************)
\* apply giving the inner function's result to the outer caller as it is
ReverseProxyHandler_apply_untranslated(E, p, thisArg, argArray) ==
    Bind(getSecureValue(E, thisArg), LAMBDA secThisArg :
    Bind(getSecureArray(secThisArg.e, argArray), LAMBDA secArgArray :
    Bind(CallRaw(secArgArray.e, E.px[p].target, secThisArg.v, secArgArray.v),
         LAMBDA sec :
         IF sec.k = "throw" THEN sec
         ELSE Return(sec.e, sec.v, sec.ran))))

\* part_000:420-431
ReverseProxyHandler_apply(E, p, thisArg, argArray) ==
    Bind(getSecureValue(E, thisArg), LAMBDA secThisArg :
    Bind(getSecureArray(secThisArg.e, argArray), LAMBDA secArgArray :
    Bind(CallRaw(secArgArray.e, E.px[p].target, secThisArg.v, secArgArray.v),
         LAMBDA sec :
         IF sec.k = "throw" THEN sec
         ELSE Bind(getRawValue(sec.e, sec.v), LAMBDA raw :
                   Return(raw.e, raw.v, sec.ran)))))

\* part_000:432-446
ReverseProxyHandler_construct(E, p, argArray, newTarget) ==
    IF newTarget = Undefined
    THEN Throw(E, Inst(TypeErrorOf("outer"), "undefined"), <<>>)
    ELSE
    Bind(getSecureArray(E, argArray), LAMBDA secArgArray :
    Bind(ConstructRaw(secArgArray.e, E.px[p].target, secArgArray.v, "outer"),
         LAMBDA sec :
         IF sec.k = "throw" THEN sec
         ELSE Bind(getRawValue(sec.e, sec.v), LAMBDA raw :
                   Return(raw.e, raw.v, sec.ran))))

\* Reflect.apply (part_000:34) on whatever f is; realm is the caller's
Reflect_apply(E, f, thisArg, args, realm) ==
    CASE f.t = "proxy" /\ f.dir = "secure" /\ isFunction(E, f) ->
            SecureProxyHandler_apply(E, f, thisArg, args)
      [] f.t = "proxy" /\ f.dir = "reverse" /\ isFunction(E, f) ->
            ReverseProxyHandler_apply(E, f, thisArg, args)
      [] f.t = "obj" /\ isFunction(E, f) -> CallRaw(E, f, thisArg, args)
      [] OTHER -> Throw(E, Inst(TypeErrorOf(realm), "not a function"), <<>>)

\* get handing out the counterpart of the value it finds
SecureProxyHandler_get_raw(E, p, key, receiver) ==
    Bind(initialize(E, p), LAMBDA E1 :
    Bind(getPropertyDescriptor(E1, ShadowRef(p), key), LAMBDA desc :
         IF isUndefined(desc.v) THEN Return(desc.e, Undefined, <<>>)
         ELSE IF desc.v.k = "acc" /\ isFunction(desc.e, desc.v.get)
              THEN Reflect_apply(desc.e, desc.v.get, receiver, <<>>, "inner")
              ELSE Bind(getRawValue(desc.e,
                            IF desc.v.k = "data" THEN desc.v.value ELSE Undefined),
                        LAMBDA raw : Return(raw.e, raw.v, <<>>))))

\* part_000:169-182
SecureProxyHandler_get(E, p, key, receiver) ==
    Bind(initialize(E, p), LAMBDA E1 :
    Bind(getPropertyDescriptor(E1, ShadowRef(p), key), LAMBDA desc :
         IF isUndefined(desc.v) THEN Return(desc.e, Undefined, <<>>)
         ELSE IF desc.v.k = "acc" /\ isFunction(desc.e, desc.v.get)
              THEN Reflect_apply(desc.e, desc.v.get, receiver, <<>>, "inner")
              ELSE Return(desc.e,
                          IF desc.v.k = "data" THEN desc.v.value ELSE Undefined,
                          <<>>)))

\* a boolean a trap returns, and the array of keys ownKeys returns
Bool(b) == Prim(IF b THEN "true" ELSE "false")
KeyList(keys) == [t |-> "keys", keys |-> keys]

\* key in o (part_000:250): o is a shadow target or an object on its
\* prototype chain; a proxy on the chain answers through its has trap
RECURSIVE HasProperty(_, _, _)
RECURSIVE SecureProxyHandler_has(_, _, _)
HasProperty(E, o, key) ==
    IF o.t = "proxy" /\ o.dir = "secure" THEN SecureProxyHandler_has(E, o, key)
    ELSE Bind(IF o.t = "shadow" THEN E.px[o.of].shadow
              ELSE IF o.t = "proxy" THEN E.px[o].shadow ELSE ShapeOf(E, o),
              LAMBDA s :
              IF key \in DOMAIN s.props THEN Return(E, Bool(TRUE), <<>>)
              ELSE IF s.proto = Null THEN Return(E, Bool(FALSE), <<>>)
              ELSE HasProperty(E, s.proto, key))

\* part_000:248-251
SecureProxyHandler_has(E, p, key) ==
    Bind(initialize(E, p), LAMBDA E1 : HasProperty(E1, ShadowRef(p), key))

\* part_000:252-255
SecureProxyHandler_ownKeys(E, p) ==
    Bind(initialize(E, p), LAMBDA E1 :
         Return(E1, KeyList(DOMAIN E1.px[p].shadow.props), <<>>))

\* isExtensible answering from the original object
SecureProxyHandler_isExtensible_live(E, p) ==
    Bind(initialize(E, p), LAMBDA E1 :
         Return(E1, Bool(ShapeOf(E1, E1.px[p].target).ext), <<>>))

\* part_000:256-261
SecureProxyHandler_isExtensible(E, p) ==
    Bind(initialize(E, p), LAMBDA E1 :
         Return(E1, Bool(E1.px[p].shadow.ext), <<>>))

\* part_000:213-216
SecureProxyHandler_deleteProperty(E, p, key) ==
    Bind(initialize(E, p), LAMBDA E1 :
    Bind(OrdinaryDelete(E1.px[p].shadow, key), LAMBDA d :
         Return([E1 EXCEPT !.px[p].shadow = d.s], Bool(d.ok), <<>>)))

\* part_000:272-276: Reflect.setPrototypeOf refuses a different prototype
\* on a non-extensible shadow target
SecureProxyHandler_setPrototypeOf(E, p, prototype) ==
    Bind(initialize(E, p), LAMBDA E1 :
         IF E1.px[p].shadow.ext \/ E1.px[p].shadow.proto = prototype
         THEN Return([E1 EXCEPT !.px[p].shadow.proto = prototype], Bool(TRUE), <<>>)
         ELSE Return(E1, Bool(FALSE), <<>>))

\* part_000:277-281
SecureProxyHandler_preventExtensions(E, p) ==
    Bind(initialize(E, p), LAMBDA E1 :
         Return([E1 EXCEPT !.px[p].shadow = PreventExtensionsShape(@)],
                Bool(TRUE), <<>>))

\* defineProperty defining the property on the original object as well
SecureProxyHandler_defineProperty_through(E, p, key, descriptor) ==
    Bind(initialize(E, p), LAMBDA E1 :
    Bind(OrdinaryDefine(E1.px[p].shadow, key, descriptor), LAMBDA d :
         IF d.ok
         THEN Return([E1 EXCEPT !.px[p].shadow = d.s,
                                !.heap[E.px[p].target.id] =
                                    OrdinaryDefine(@, key, descriptor).s],
                     Bool(TRUE), <<>>)
         ELSE Throw(E1, Inst(TypeErrorOf("inner"), "cannot define property"), <<>>)))

\* defineProperty through Reflect.defineProperty, whose answer it drops
SecureProxyHandler_defineProperty_reflect(E, p, key, descriptor) ==
    Bind(initialize(E, p), LAMBDA E1 :
    Bind(OrdinaryDefine(E1.px[p].shadow, key, descriptor), LAMBDA d :
         Return([E1 EXCEPT !.px[p].shadow = d.s], Bool(TRUE), <<>>)))

\* part_000:282-289: Object.defineProperty throws where
\* Reflect.defineProperty would return false
SecureProxyHandler_defineProperty(E, p, key, descriptor) ==
    Bind(initialize(E, p), LAMBDA E1 :
    Bind(OrdinaryDefine(E1.px[p].shadow, key, descriptor), LAMBDA d :
         IF d.ok
         THEN Return([E1 EXCEPT !.px[p].shadow = d.s], Bool(TRUE), <<>>)
         ELSE Throw(E1, Inst(TypeErrorOf("inner"), "cannot define property"), <<>>)))

\* the last steps of OrdinarySetWithOwnDescriptor: the value is stored on
\* the receiver, a shadow target, as an own data property
SetOnReceiver(E, receiver, key, value) ==
    IF key \in DOMAIN E.px[receiver.of].shadow.props
    THEN IF /\ E.px[receiver.of].shadow.props[key].k = "data"
            /\ E.px[receiver.of].shadow.props[key].w
         THEN Return([E EXCEPT !.px[receiver.of].shadow.props[key].value = value],
                     Bool(TRUE), <<>>)
         ELSE Return(E, Bool(FALSE), <<>>)
    ELSE IF E.px[receiver.of].shadow.ext
         THEN Return([E EXCEPT !.px[receiver.of].shadow.props =
                          (key :> DataDesc(value, TRUE, TRUE, TRUE)) @@ @],
                     Bool(TRUE), <<>>)
         ELSE Return(E, Bool(FALSE), <<>>)

\* o[key] = value with o a shadow target or a raw object on its prototype
\* chain (part_000:210, [[Set]] of an ordinary object): an own data property
\* decides, an own accessor's setter runs, and where o has no own property
\* the question goes to its prototype, through the set trap when that is a
\* proxy
RECURSIVE OrdinarySet(_, _, _, _, _)
RECURSIVE SecureProxyHandler_set(_, _, _, _, _)
OrdinarySet(E, o, key, value, receiver) ==
    Bind(IF o.t = "shadow" THEN E.px[o.of].shadow ELSE ShapeOf(E, o), LAMBDA s :
         IF key \in DOMAIN s.props
         THEN IF s.props[key].k = "data"
              THEN IF s.props[key].w
                   THEN SetOnReceiver(E, receiver, key, value)
                   ELSE Return(E, Bool(FALSE), <<>>)
              ELSE IF isFunction(E, s.props[key].set)
                   THEN Bind(Reflect_apply(E, s.props[key].set, receiver,
                                           <<value>>, "inner"), LAMBDA r :
                             IF r.k = "throw" THEN r
                             ELSE Return(r.e, Bool(TRUE), r.ran))
                   ELSE Return(E, Bool(FALSE), <<>>)
         ELSE IF s.proto = Null THEN SetOnReceiver(E, receiver, key, value)
         ELSE IF s.proto.t = "proxy" /\ s.proto.dir = "secure"
              THEN SecureProxyHandler_set(E, s.proto, key, value, receiver)
              ELSE OrdinarySet(E, s.proto, key, value, receiver))

\* part_000:183-212; the assignment of line 210 is strict-mode code, so an
\* assignment that does not succeed throws a TypeError
SecureProxyHandler_set(E, p, key, value, receiver) ==
    Bind(initialize(E, p), LAMBDA E1 :
    Bind(getPropertyDescriptor(E1, ShadowRef(p), key), LAMBDA d :
         IF ~isUndefined(d.v) /\ d.v.k = "data" /\ ~d.v.w
         THEN Return(d.e, Bool(FALSE), <<>>)
         ELSE IF ~isUndefined(d.v) /\ d.v.k = "acc" /\ isFunction(d.e, d.v.set)
         THEN Bind(Reflect_apply(d.e, d.v.set, receiver, <<value>>, "inner"),
                   LAMBDA r :
                   IF r.k = "throw" THEN r ELSE Return(r.e, Bool(TRUE), r.ran))
         ELSE IF ~isUndefined(d.v) /\ d.v.k = "acc" /\ isFunction(d.e, d.v.get)
         THEN Return(d.e, Bool(FALSE), <<>>)
         ELSE IF isUndefined(d.v) /\ ~d.e.px[p].shadow.ext
         THEN Return(d.e, Bool(FALSE), <<>>)
         ELSE Bind(OrdinarySet(d.e, ShadowRef(p), key, value, ShadowRef(p)),
                   LAMBDA r :
                   IF r.k = "throw" THEN r
                   ELSE IF r.v = Bool(FALSE)
                        THEN Throw(r.e, Inst(TypeErrorOf("inner"), "cannot assign"),
                                   r.ran)
                        ELSE Return(r.e, Bool(TRUE), r.ran))))

(***************************************************************************)
(* createSecureEnvironment (node-realm.ts:11-55).                          *)
(***************************************************************************)
\* env.remap (node-realm.ts:25, spec.md 4.1 remapGlobals): every own
\* descriptor of the source global is installed, membrane-mediated, on the
\* target global: [e, g] with g the target global's shape
RECURSIVE remapFrom(_, _, _, _)
remapFrom(E, g, descriptors, keys) ==
    IF keys = {} THEN [e |-> E, g |-> g]
    ELSE Bind(CHOOSE k \in keys : TRUE, LAMBDA key :
         Bind(getSecureDescriptor(E, descriptors[key]), LAMBDA d :
         Bind(installDescriptorIntoShadowTarget(g, key, d.v), LAMBDA g1 :
              remapFrom(d.e, g1, descriptors, keys \ {key}))))

remap(E, g, descriptors) == remapFrom(E, g, descriptors, DOMAIN descriptors)

\* Reflect.construct without a newTarget (./shared construct): newTarget is
\* the constructor itself
Reflect_construct(E, f, args, realm) ==
    CASE f.t = "proxy" /\ f.dir = "secure" /\ isFunction(E, f) ->
            SecureProxyHandler_construct(E, f, args, f)
      [] f.t = "proxy" /\ f.dir = "reverse" /\ isFunction(E, f) ->
            ReverseProxyHandler_construct(E, f, args, f)
      [] f.t = "obj" /\ isFunction(E, f) -> ConstructRaw(E, f, args, realm)
      [] OTHER -> Throw(E, Inst(TypeErrorOf(realm), "not a constructor"), <<>>)

\* e instanceof C evaluated by outer code (OrdinaryHasInstance): walks the
\* prototype chain of e, through the traps of the proxies on it: [e, v]
RECURSIVE InstanceOfFrom(_, _, _)
InstanceOfFrom(E, o, P) ==
    Bind(Reflect_getPrototypeOf(E, o), LAMBDA proto :
         IF proto.v = Null THEN [e |-> proto.e, v |-> FALSE]
         ELSE IF proto.v = P THEN [e |-> proto.e, v |-> TRUE]
         ELSE InstanceOfFrom(proto.e, proto.v, P))

InstanceOf(E, e, C) ==
    IF IsPrim(e) THEN [e |-> E, v |-> FALSE]
    ELSE InstanceOfFrom(E, e, PrototypeOfCtor(E, C.id))

\* the property read e[key] evaluated by outer code: a primitive reads
\* through the outer realm's wrapper prototype, a secure proxy through its
\* get trap, anything else through the ordinary lookup
OuterGet(E, e, key) ==
    CASE e = Null \/ e = Undefined ->
            Throw(E, Inst(TypeErrorOf("outer"), "cannot read property"), <<>>)
      [] e.t = "proxy" /\ e.dir = "secure" -> SecureProxyHandler_get(E, e, key, e)
      [] OTHER ->
            Bind(getPropertyDescriptor(
                    E, IF IsPrim(e) THEN Obj("ONumProto") ELSE e, key), LAMBDA d :
                 IF isUndefined(d.v) THEN Return(d.e, Undefined, <<>>)
                 ELSE IF d.v.k = "acc"
                      THEN Reflect_apply(d.e, d.v.get, e, <<>>, "outer")
                      ELSE Return(d.e, d.v.value, <<>>))

\* what the source text does when the sandbox evaluates it
\* (node-realm.ts:29): throws a value, calls a function it holds, or
\* completes
secureIndirectEval(E, sourceText) ==
    CASE sourceText.do = "throw" -> Throw(E, sourceText.v, <<>>)
      [] sourceText.do = "call" ->
            Reflect_apply(E, sourceText.v, Undefined, sourceText.args, "inner")
      [] OTHER -> Return(E, Undefined, <<>>)

\* node-realm.ts:49-50: construct(Error, [message])
fallbackError(E, message) ==
    Throw(E, Inst("OError", MessageOf(<<message>>)), <<>>)

\* an evaluator whose catch block ends without throwing
evaluate_swallow(E, sourceText) ==
    Bind(secureIndirectEval(E, sourceText), LAMBDA r :
         Return(r.e, Undefined, r.ran))

\* node-realm.ts:27-54, the evaluator createSecureEnvironment returns
evaluate(E, sourceText) ==
    Bind(secureIndirectEval(E, sourceText), LAMBDA r :
      IF r.k = "return" THEN Return(r.e, Undefined, r.ran)
      ELSE
    Bind(InstanceOf(r.e, r.v, Obj("OError")), LAMBDA isError :
      IF isError.v THEN Throw(isError.e, r.v, r.ran)
      ELSE
    Bind(OuterGet(isError.e, r.v, "message"), LAMBDA message :
      IF message.k = "throw" THEN Throw(message.e, message.v, r.ran)
      ELSE
    Bind(OuterGet(message.e, r.v, "constructor"), LAMBDA ctor :
      IF ctor.k = "throw" THEN fallbackError(ctor.e, message.v)
      ELSE
    Bind(getRawValue(ctor.e, ctor.v), LAMBDA rawCtor :
    Bind(Reflect_construct(rawCtor.e, rawCtor.v, <<message.v>>, "outer"),
         LAMBDA rawError :
         IF rawError.k = "throw" THEN fallbackError(rawError.e, message.v)
         ELSE Throw(rawError.e, rawError.v, r.ran)))))))

(***************************************************************************)
(* The state machine: the code of either realm performs one operation on   *)
(* a proxy it holds, or the host evaluates one source text.                *)
(***************************************************************************)
EmptyEnv ==
    [heap |-> Heap0, rom |-> NoProps, som |-> NoProps, px |-> NoProps,
     calls |-> <<>>]

\* the Environment as an operation finds it: the log covers one operation
Begin(E) == [E EXCEPT !.calls = <<>>]

NoSource == [do |-> "none", v |-> Undefined, args |-> <<>>]

\* the record of an operation: which, on what, with what, and its outcome
Done(op, p, key, args, src, r) ==
    [op |-> op, p |-> p, key |-> key, args |-> args, src |-> src,
     k |-> r.k, v |-> r.v, ran |-> r.ran]

SecureProxies(E) == {p \in DOMAIN E.px : p.dir = "secure"}
ReverseProxies(E) == {p \in DOMAIN E.px : p.dir = "reverse"}

\* a value of the inner realm: a primitive, an inner object, or a proxy the
\* Environment made for the inner realm
InnerSafe(E, v) ==
    \/ IsPrim(v)
    \/ IsRaw(v) /\ RealmOf(E, v) = "inner"
    \/ IsProxy(v) /\ v.dir = "secure" /\ v \in DOMAIN E.px
    \/ v.t = "keys"

\* the values a trap result carries: the result, or the value, get and set
\* fields of a descriptor
ValuesOf(x) ==
    IF "t" \in DOMAIN x THEN {x}
    ELSE IF x.k = "data" THEN {x.value} ELSE {x.get, x.set}

Handed(r) == {v \in ValuesOf(r.v) : ~InnerSafe(r.e, v)}

\* the keys a proxy is asked for: those of its snapshot, those of its
\* shadow target, and one it may inherit or lack
KeysOf(E, p) ==
    DOMAIN E.px[p].meta.descriptors \cup DOMAIN E.px[p].shadow.props
        \cup {"constructor"}

\* what the inner realm's code passes: a primitive, its own objects, the
\* proxy of the global obj, and whatever it has been handed
InnerValues ==
    {Prim("1"), Obj("IObj"), Obj("IFn")}
        \cup {secureGlobalThis.props["obj"].value} \cup leak

InnerArgs == {<<>>} \cup {<<v>> : v \in InnerValues}

\* what the outer realm's code passes: a primitive, its own objects, and the
\* proxies of inner values the Environment made for it
OuterValues == {Prim("1"), Obj("Obj")} \cup ReverseProxies(env)

OuterArgs == {<<>>} \cup {<<v>> : v \in OuterValues}

\* what a constructor is given: a message
CtorArgs == {<<Prim("1")>>}

\* what sandboxed source text may do
SourceTexts ==
    {[do |-> "ok", v |-> Undefined, args |-> <<>>]}
        \cup {[do |-> "throw", v |-> v, args |-> <<>>] :
                v \in InnerValues \cup {Null, Undefined, Inst("IError", "boom"),
                                        Inst("ITypeError", "boom")}}
        \cup {[do |-> "call", v |-> f, args |-> a] :
                f \in {q \in SecureProxies(env) : isFunction(env, q)},
                a \in {<<>>}}

Init ==
    /\ LET r == remap(EmptyEnv, Shape("inner", "none", Obj("IProto"), NoProps, TRUE),
                      GlobalDescriptors)
       IN  /\ env = r.e
           /\ secureGlobalThis = r.g
    /\ leak = {}
    /\ ops = 0
    /\ last = Done("init", Undefined, "", <<>>, NoSource, Return(env, Undefined, <<>>))

\* the outcome r of an operation the inner realm's code performed
InnerStep(op, p, key, args, r) ==
    /\ ops < MaxOps
    /\ ops' = ops + 1
    /\ env' = r.e
    /\ leak' = leak \cup Handed(r)
    /\ last' = Done(op, p, key, args, NoSource, r)
    /\ UNCHANGED secureGlobalThis

OuterStep(op, p, args, src, r) ==
    /\ ops < MaxOps
    /\ ops' = ops + 1
    /\ env' = r.e
    /\ last' = Done(op, p, "", args, src, r)
    /\ UNCHANGED <<secureGlobalThis, leak>>

Get ==
    /\ ops < MaxOps
    /\ \E p \in SecureProxies(env) : \E key \in KeysOf(env, p) :
         \E r \in {SecureProxyHandler_get(Begin(env), p, key, p)} :
           InnerStep("get", p, key, <<>>, r)

GetOwnPropertyDescriptor ==
    /\ ops < MaxOps
    /\ \E p \in SecureProxies(env) : \E key \in KeysOf(env, p) :
         \E r \in {SecureProxyHandler_getOwnPropertyDescriptor(Begin(env), p, key)} :
           InnerStep("getOwnPropertyDescriptor", p, key, <<>>, r)

GetPrototypeOf ==
    /\ ops < MaxOps
    /\ \E p \in SecureProxies(env) :
         \E r \in {SecureProxyHandler_getPrototypeOf(Begin(env), p)} :
           InnerStep("getPrototypeOf", p, "", <<>>, r)

Apply ==
    /\ ops < MaxOps
    /\ \E p \in SecureProxies(env), args \in InnerArgs :
         \E r \in {SecureProxyHandler_apply(Begin(env), p, Undefined, args)} :
           /\ isFunction(env, p)
           /\ InnerStep("apply", p, "", args, r)

Construct ==
    /\ ops < MaxOps
    /\ \E p \in SecureProxies(env), args \in CtorArgs :
         \E newTarget \in {Undefined, p} :
         \E r \in {SecureProxyHandler_construct(Begin(env), p, args, newTarget)} :
           /\ isFunction(env, p)
           /\ InnerStep("construct", p, "", <<newTarget>> \o args, r)

ReverseApply ==
    /\ ops < MaxOps
    /\ \E p \in ReverseProxies(env), args \in OuterArgs :
         \E r \in {ReverseProxyHandler_apply(Begin(env), p, Undefined, args)} :
           /\ isFunction(env, p)
           /\ OuterStep("reverseApply", p, args, NoSource, r)

ReverseConstruct ==
    /\ ops < MaxOps
    /\ \E p \in ReverseProxies(env), args \in CtorArgs :
         \E newTarget \in {Undefined, p} :
         \E r \in {ReverseProxyHandler_construct(Begin(env), p, args, newTarget)} :
           /\ isFunction(env, p)
           /\ OuterStep("reverseConstruct", p, <<newTarget>> \o args, NoSource, r)

\* the proxies whose shape the inner realm's code asks for or works on: those
\* of the global obj, of the frozen object, of the outer Object.prototype and
\* of one function
Subjects(E) ==
    {p \in SecureProxies(E) :
        p.of \in {Obj("Obj"), Obj("Frozen"), Obj("OProto"), Obj("Ident")}}

\* the keys a mutation is tried with: the own keys, one the outer
\* Object.prototype has and one no object has
MutationKeysOf(E, p) ==
    DOMAIN E.px[p].meta.descriptors \cup DOMAIN E.px[p].shadow.props
        \cup {"kind", "z"}

\* what the inner realm's code assigns or defines
SetValues == {Prim("2"), Obj("IObj")}
DefineDescriptors == {DataDesc(Prim("2"), TRUE, TRUE, TRUE)}
Prototypes == {Null, Obj("IObj")}

Set ==
    /\ ops < MaxOps
    /\ \E p \in Subjects(env) : \E key \in MutationKeysOf(env, p) :
         \E value \in SetValues :
         \E r \in {SecureProxyHandler_set(Begin(env), p, key, value, p)} :
           InnerStep("set", p, key, <<value>>, r)

DeleteProperty ==
    /\ ops < MaxOps
    /\ \E p \in Subjects(env) : \E key \in MutationKeysOf(env, p) :
         \E r \in {SecureProxyHandler_deleteProperty(Begin(env), p, key)} :
           InnerStep("deleteProperty", p, key, <<>>, r)

Has ==
    /\ ops < MaxOps
    /\ \E p \in Subjects(env) : \E key \in MutationKeysOf(env, p) :
         \E r \in {SecureProxyHandler_has(Begin(env), p, key)} :
           InnerStep("has", p, key, <<>>, r)

OwnKeys ==
    /\ ops < MaxOps
    /\ \E p \in Subjects(env) :
         \E r \in {SecureProxyHandler_ownKeys(Begin(env), p)} :
           InnerStep("ownKeys", p, "", <<>>, r)

IsExtensible ==
    /\ ops < MaxOps
    /\ \E p \in Subjects(env) :
         \E r \in {SecureProxyHandler_isExtensible(Begin(env), p)} :
           InnerStep("isExtensible", p, "", <<>>, r)

SetPrototypeOf ==
    /\ ops < MaxOps
    /\ \E p \in Subjects(env) : \E prototype \in Prototypes :
         \E r \in {SecureProxyHandler_setPrototypeOf(Begin(env), p, prototype)} :
           InnerStep("setPrototypeOf", p, "", <<prototype>>, r)

PreventExtensions ==
    /\ ops < MaxOps
    /\ \E p \in Subjects(env) :
         \E r \in {SecureProxyHandler_preventExtensions(Begin(env), p)} :
           InnerStep("preventExtensions", p, "", <<>>, r)

DefineProperty ==
    /\ ops < MaxOps
    /\ \E p \in Subjects(env) : \E key \in MutationKeysOf(env, p) :
         \E descriptor \in DefineDescriptors :
         \E r \in {SecureProxyHandler_defineProperty(Begin(env), p, key, descriptor)} :
           InnerStep("defineProperty", p, key, <<descriptor>>, r)

\* what the outer realm's code does to an object of its own, outside the
\* membrane: add, change or delete an own data property, change the
\* prototype, prevent extensions
Mutations == {"add", "change", "delete", "proto", "preventExtensions"}

MutateRaw(E, o, m) ==
    [E EXCEPT !.heap[o.id] =
        CASE m = "add" ->
                [@ EXCEPT !.props = ("n" :> DataDesc(Prim("9"), TRUE, TRUE, TRUE)) @@ @]
          [] m = "change" ->
                IF "a" \in DOMAIN @.props
                THEN [@ EXCEPT !.props["a"].value = Prim("9")] ELSE @
          [] m = "delete" -> OrdinaryDelete(@, "a").s
          [] m = "proto" -> [@ EXCEPT !.proto = Null]
          [] OTHER -> PreventExtensionsShape(@)]

OuterMutate ==
    /\ ops < MaxOps
    /\ \E m \in Mutations :
         OuterStep("outerMutate", Obj("Obj"), <<Prim(m)>>, NoSource,
                   Return(MutateRaw(Begin(env), Obj("Obj"), m), Undefined, <<>>))

Evaluate ==
    /\ ops < MaxOps
    /\ \E sourceText \in SourceTexts :
         \E r \in {evaluate(Begin(env), sourceText)} :
           OuterStep("evaluate", Undefined, <<>>, sourceText, r)

Next ==
    \/ Get
    \/ GetOwnPropertyDescriptor
    \/ GetPrototypeOf
    \/ Apply
    \/ Construct
    \/ Set
    \/ DeleteProperty
    \/ Has
    \/ OwnKeys
    \/ IsExtensible
    \/ SetPrototypeOf
    \/ PreventExtensions
    \/ DefineProperty
    \/ OuterMutate
    \/ ReverseApply
    \/ ReverseConstruct
    \/ Evaluate

Spec == Init /\ [][Next]_vars

\* the outer realm's code may have called Object.preventExtensions,
\* Object.seal or Object.freeze on obj before the sandbox is made
Mutabilities == {"extensible", "nonExtensible", "sealed", "frozen"}

WithMutability(s, m) ==
    CASE m = "frozen" -> FreezeShape(s)
      [] m = "sealed" -> SealShape(s)
      [] m = "nonExtensible" -> PreventExtensionsShape(s)
      [] OTHER -> s

InitShapes ==
    /\ \E m \in Mutabilities :
         LET r == remap([EmptyEnv EXCEPT !.heap["Obj"] = WithMutability(@, m)],
                        Shape("inner", "none", Obj("IProto"), NoProps, TRUE),
                        GlobalDescriptors)
         IN  /\ env = r.e
             /\ secureGlobalThis = r.g
    /\ leak = {}
    /\ ops = 0
    /\ last = Done("init", Undefined, "", <<>>, NoSource, Return(env, Undefined, <<>>))

SpecShapes == InitShapes /\ [][Next]_vars

(***************************************************************************)
(* Properties.                                                             *)
(***************************************************************************)
\* secureGlobalThis[name] as the sandbox's code reads it
GlobalProxy(name) == secureGlobalThis.props[name].value

\* the traps of the outer-to-inner handler whose results the inner realm's
\* code receives
SecureOps == {"get", "getOwnPropertyDescriptor", "getPrototypeOf", "apply", "construct"}

\* the message the evaluator reads off the value the sandbox threw
ThrownMessage(E, e) ==
    IF e \in {Null, Undefined} THEN "undefined"
    ELSE MessageOf(<<OuterGet(E, e, "message").v>>)

\* C1: every value a trap of the outer-to-inner handler returns to the
\* inner realm's code (the result of get, getPrototypeOf, apply and
\* construct, the value, get and set fields of a descriptor) is a primitive,
\* an inner-realm object or a proxy the Environment made for the inner
\* realm; never a raw outer-realm object.
C1_NoRawOuterHanded ==
    (last.op \in SecureOps /\ last.k = "return")
        => \A v \in ValuesOf(last.v) : InnerSafe(env, v)

\* C2: the Environment never holds two proxies of the same direction for
\* the same value, and a value that crosses again (the property self of the
\* global obj, which is obj, read before the inner realm's code has
\* assigned anything) arrives as the proxy it arrived as before.
C2_IdentityStability ==
    /\ \A p, q \in DOMAIN env.px : (p.dir = q.dir /\ p.of = q.of) => p = q
    /\ (/\ ops = 1
        /\ last.op = "get" /\ last.p = GlobalProxy("obj") /\ last.key = "self")
          => (last.k = "return" /\ last.v = last.p)

C2_Witness ==
    /\ last.op = "get" /\ last.p = GlobalProxy("obj") /\ last.key = "self"
    /\ last.v = GlobalProxy("obj")

\* C3: a primitive that crosses, as an argument and back as a result in
\* either direction or as the value of a property read before the inner
\* realm's code has assigned anything, arrives unchanged, and no primitive
\* is a key of rom or som.
C3_PrimitiveTransparency ==
    /\ \A k \in DOMAIN env.rom \cup DOMAIN env.som : ~IsPrim(k)
    /\ (/\ last.op = "apply" /\ last.p = GlobalProxy("ident")
        /\ Len(last.args) = 1 /\ IsPrim(last.args[1]))
          => (last.k = "return" /\ last.v = last.args[1])
    /\ (/\ last.op = "reverseApply" /\ last.p.of = Obj("IFn")
        /\ Len(last.args) = 1 /\ IsPrim(last.args[1]))
          => (last.k = "return" /\ last.v = last.args[1])
    /\ (/\ ops = 1
        /\ last.op = "get" /\ last.p = GlobalProxy("obj") /\ last.key = "a")
          => (last.k = "return" /\ last.v = Prim("1"))

C3_Witness ==
    /\ last.op = "apply" /\ last.p = GlobalProxy("ident")
    /\ last.args = <<Prim("1")>> /\ last.v = Prim("1")

\* C4: rom and som are inverse to each other, no proxy is a proxy of a
\* proxy, and an object or function without a distortion entry that is
\* passed through the membrane to an identity function of the other realm
\* comes back as itself, in both directions.
C4_RoundTrip ==
    /\ \A v \in DOMAIN env.rom :
          env.rom[v] \in DOMAIN env.som /\ env.som[env.rom[v]] = v
    /\ \A w \in DOMAIN env.som :
          env.som[w] \in DOMAIN env.rom /\ env.rom[env.som[w]] = w
    /\ \A p \in DOMAIN env.px : ~IsProxy(p.of)
    /\ (/\ last.op = "apply" /\ last.p = GlobalProxy("ident")
        /\ Len(last.args) = 1 /\ last.args[1] \notin DOMAIN distortionMap)
          => (last.k = "return" /\ last.v = last.args[1])
    /\ (/\ last.op = "reverseApply" /\ last.p.of = Obj("IFn")
        /\ Len(last.args) = 1 /\ last.args[1] \notin DOMAIN distortionMap)
          => (last.k = "return" /\ last.v = last.args[1])

C4_Witness ==
    /\ last.op = "apply" /\ last.p = GlobalProxy("ident")
    /\ last.args = <<Obj("IObj")>> /\ last.v = Obj("IObj")
    /\ Obj("IObj") \in DOMAIN env.som /\ IsProxy(env.som[Obj("IObj")])

\* C5: with the entry fetch -> stand-in, the globals fetch and originalFetch
\* (the same function) are one proxy whose handler's target is the stand-in,
\* a call of it from the inner realm runs the stand-in and not fetch, and a
\* call of wrappedFetch, which is not in the map, runs wrappedFetch and,
\* inside it, fetch.
C5_DistortionPrecedence ==
    /\ GlobalProxy("fetch") = GlobalProxy("originalFetch")
    /\ \A p \in SecureProxies(env) :
          p.of \in DOMAIN distortionMap => env.px[p].target = distortionMap[p.of]
    /\ (last.op = "apply" /\ last.p.of = Obj("Fetch")) => last.ran = <<"Stub">>
    /\ (last.op = "apply" /\ last.p.of = Obj("WrappedFetch"))
          => last.ran = <<"WrappedFetch", "Fetch">>
    /\ (last.op = "evaluate" /\ last.src.do = "call" /\ last.src.v.of = Obj("Fetch"))
          => last.ran = <<"Stub">>

C5_Witness ==
    /\ last.op = "apply" /\ last.p = GlobalProxy("originalFetch")
    /\ last.ran = <<"Stub">>

\* C6: an exception that a trap of the outer-to-inner handler lets the
\* inner realm's code catch is an instance of the inner realm's Error.
C6_ErrorsReanchored ==
    (last.op \in {"get", "apply", "construct"} /\ last.k = "throw")
        => InstanceOf(env, last.v, Obj("IError")).v

\* C7: an evaluation whose source text throws inside the sandbox, whatever
\* it throws, ends with the evaluator throwing to its caller.
C7_EvaluatorAlwaysThrows ==
    [][(/\ ops' = ops + 1
        /\ last'.op = "evaluate"
        /\ secureIndirectEval(env, last'.src).k = "throw")
          => last'.k = "throw"]_vars

C7_Witness ==
    /\ last.op = "evaluate" /\ last.src.do = "throw"
    /\ last.src.v = Null /\ last.k = "throw"

\* C8: the evaluator re-throws a caught instance of the outer Error as it
\* is; otherwise it throws a fresh value built by the raw constructor of the
\* caught value's constructor with the same message, or, when that
\* construction fails, a plain outer Error with the original message.
C8_CorrectionPolicy ==
    (last.op = "evaluate" /\ last.src.do = "throw")
        => /\ last.k = "throw"
           /\ IF InstanceOf(env, last.src.v, Obj("OError")).v
              THEN last.v = last.src.v
              ELSE \/ /\ IsProxy(last.v) /\ last.v.dir = "reverse"
                      /\ last.v.of.t = "inst"
                      /\ last.v.of.m = ThrownMessage(env, last.src.v)
                   \/ last.v = Inst("OError", ThrownMessage(env, last.src.v))

\* C9: whatever the evaluator throws to its caller is an instance of the
\* outer realm's Error.
C9_CallerCatchesOuterError ==
    (last.op = "evaluate" /\ last.k = "throw")
        => InstanceOf(env, last.v, Obj("OError")).v

\* C10: a construct trap, of either handler, invoked with newTarget
\* undefined throws a TypeError and no constructor has run.
C10_ConstructGuard ==
    (last.op \in {"construct", "reverseConstruct"} /\ last.args[1] = Undefined)
        => /\ last.k = "throw"
           /\ last.v.t = "inst"
           /\ last.v.id = TypeErrorOf(IF last.op = "construct" THEN "inner" ELSE "outer")
           /\ last.ran = <<>>

C10_Witness ==
    /\ last.op = "construct" /\ last.p = GlobalProxy("HostError")
    /\ last.args[1] = Undefined /\ last.k = "throw"
    /\ env.px[last.p].init

\* what the inner realm's code reads as p[key]
ReadThrough(E, p, key) == SecureProxyHandler_get(Begin(E), p, key, p).v

\* C11: the proxy of the object that was frozen when it crossed answers
\* isExtensible with false, and a set, defineProperty or deleteProperty of an
\* existing key or a set or defineProperty of a new key through it fails
\* (returns false or throws) and leaves what is read through the proxy as it
\* was.
C11_FrozenFidelity ==
    [][(ops' = ops + 1 /\ last'.op \in {"isExtensible", "set", "defineProperty",
                                        "deleteProperty"}
          /\ last'.p = GlobalProxy("frozen"))
        => /\ last'.op = "isExtensible" => last'.v = Bool(FALSE)
           /\ (last'.op \in {"set", "defineProperty"}
                 \/ (last'.op = "deleteProperty" /\ last'.key = "a"))
                => (last'.k = "throw" \/ last'.v = Bool(FALSE))
           /\ \A key \in {"a", "kind", "z"} :
                 ReadThrough(env', last'.p, key) = ReadThrough(env, last'.p, key)]_vars

\* C12: a proxy no trap of which has been invoked has had no descriptor
\* copied onto its shadow target (its copy count is zero and its shadow
\* target is the bare placeholder, which for a function has its prototype
\* and the name renameFunction gave it), every proxy starts that way, and
\* the first trap performs the one copy.
C12_LazyInitialization ==
    /\ \A p \in SecureProxies(env) :
          /\ ~env.px[p].init
                => /\ env.px[p].copies = 0
                   /\ DOMAIN env.px[p].shadow.props \subseteq {"prototype", "name"}
          /\ env.px[p].init => env.px[p].copies = 1
    /\ ops = 0 => \A p \in SecureProxies(env) : ~env.px[p].init
    /\ last.op \in SecureOps => env.px[last.p].init

C12_Witness ==
    /\ last.op = "getPrototypeOf" /\ last.p = GlobalProxy("obj")
    /\ env.px[last.p].copies = 1
    /\ IsProxy(last.v) /\ ~env.px[last.v].init /\ env.px[last.v].copies = 0

\* the traps that work on the shape of the shadow target
ShapeOps == {"setPrototypeOf", "preventExtensions", "defineProperty", "deleteProperty"}

\* C13: a setPrototypeOf, preventExtensions, defineProperty or
\* deleteProperty trap leaves every raw object of either realm (prototype,
\* own descriptors, extensibility) as it was, and changes the shadow target
\* of no proxy but the one it was invoked on, whose target and snapshot it
\* leaves alone too.
C13_ShadowOnlyMutation ==
    [][(ops' = ops + 1 /\ last'.op \in ShapeOps)
        => /\ env'.heap = env.heap
           /\ \A q \in DOMAIN env.px \ {last'.p} : env'.px[q] = env.px[q]
           /\ env'.px[last'.p].target = env.px[last'.p].target
           /\ env'.px[last'.p].meta = env.px[last'.p].meta]_vars

C13_Witness ==
    /\ last.op = "defineProperty" /\ last.p = GlobalProxy("obj")
    /\ last.key = "z" /\ last.v = Bool(TRUE)
    /\ "z" \in DOMAIN env.px[last.p].shadow.props
    /\ "z" \notin DOMAIN env.heap["Obj"].props

\* what the inner realm's code is answered about p: its own keys, whether it
\* is extensible, its prototype, which keys it has and what its own data
\* properties hold
Observed(E, p) ==
    [ownKeys |-> SecureProxyHandler_ownKeys(E, p).v,
     isExtensible |-> SecureProxyHandler_isExtensible(E, p).v,
     getPrototypeOf |-> SecureProxyHandler_getPrototypeOf(E, p).v,
     has |-> [key \in MutationKeysOf(E, p) \cup {"n"} |->
                SecureProxyHandler_has(E, p, key).v],
     get |-> [key \in {k \in DOMAIN E.px[p].shadow.props :
                          E.px[p].shadow.props[k].k = "data"} |->
                ReadThrough(E, p, key)]]

\* C14: when the outer realm's code adds, changes or deletes an own data
\* property of an object, changes its prototype or prevents its extension,
\* every initialized proxy is answered ownKeys, has, get of a data property,
\* getPrototypeOf and isExtensible as before.
C14_SnapshotStaleness ==
    [][(ops' = ops + 1 /\ last'.op = "outerMutate")
        => \A p \in SecureProxies(env) :
              env.px[p].init => Observed(env', p) = Observed(env, p)]_vars

C14_Witness ==
    /\ last.op = "outerMutate" /\ last.args = <<Prim("change")>>
    /\ env.px[GlobalProxy("obj")].init
    /\ env.heap["Obj"].props["a"].value = Prim("9")
    /\ ReadThrough(env, GlobalProxy("obj"), "a") = Prim("1")

\* p.self.self: the second read is made on what the first returned
SelfTwice(E, p) ==
    Bind(SecureProxyHandler_get(E, p, "self", p), LAMBDA r1 :
         IF r1.k = "throw" \/ r1.v.t # "proxy" THEN r1
         ELSE SecureProxyHandler_get(r1.e, r1.v, "self", r1.v))

\* C15: Obj has the property self whose value is Obj.  Reading self from a
\* proxy of Obj that no trap has touched yet, and self again from what was
\* returned, returns that same proxy both times; the initialization this
\* starts copies the descriptors of Obj once and makes no second proxy of
\* Obj.
C15_CyclicReference ==
    /\ (ops = 1 /\ last.op = "get" /\ last.key = "self" /\ last.p.of = Obj("Obj"))
          => (last.k = "return" /\ last.v = last.p /\ env.px[last.p].copies = 1)
    /\ \A p \in SecureProxies(env) :
        (p.of = Obj("Obj") /\ ~env.px[p].init)
            => /\ SecureProxyHandler_get(Begin(env), p, "self", p).k = "return"
               /\ SecureProxyHandler_get(Begin(env), p, "self", p).v = p
               /\ SelfTwice(Begin(env), p).k = "return"
               /\ SelfTwice(Begin(env), p).v = p
               /\ SelfTwice(Begin(env), p).e.px[p].copies = 1
               /\ \A q \in DOMAIN SelfTwice(Begin(env), p).e.px :
                      (q.dir = "secure" /\ q.of = Obj("Obj")) => q = p

C15_Witness ==
    /\ ops = 1 /\ last.op = "get" /\ last.key = "self"
    /\ last.p = GlobalProxy("obj") /\ last.v = GlobalProxy("obj")
    /\ env.px[GlobalProxy("obj")].copies = 1
    /\ SelfTwice(Begin(env), GlobalProxy("obj")).v = GlobalProxy("obj")

\* the traps of the two handlers
SecureTraps ==
    SecureOps \cup ShapeOps \cup {"set", "has", "ownKeys", "isExtensible"}

ReverseTraps == {"reverseApply", "reverseConstruct"}

\* C16: when a trap of either handler has run, the handler it ran on has
\* been initialized: the trap invoked initialize before it read the shadow
\* target or called the real target.
C16_InitializeFirst ==
    (last.op \in SecureTraps \cup ReverseTraps) => env.px[last.p].init

C18_AppendOnly ==
    [][/\ \A k \in DOMAIN env.rom :
             k \in DOMAIN env'.rom /\ env'.rom[k] = env.rom[k]
       /\ \A k \in DOMAIN env.som :
             k \in DOMAIN env'.som /\ env'.som[k] = env.som[k]]_vars

C18_Witness ==
    /\ ops = 2
    /\ last.op = "reverseApply"
    /\ \E p \in ReverseProxies(env) : env.rom[p] = p.of /\ env.som[p.of] = p
    /\ \E k \in DOMAIN env.rom : k \notin DOMAIN remap(EmptyEnv,
            Shape("inner", "none", Obj("IProto"), NoProps, TRUE),
            GlobalDescriptors).e.rom
    /\ \A k \in DOMAIN remap(EmptyEnv,
            Shape("inner", "none", Obj("IProto"), NoProps, TRUE),
            GlobalDescriptors).e.rom :
          env.rom[k] = remap(EmptyEnv,
            Shape("inner", "none", Obj("IProto"), NoProps, TRUE),
            GlobalDescriptors).e.rom[k]

\* the counterpart the Environment has recorded for a value, a primitive
\* being its own
NoCounterpart == [t |-> "none"]

ToOuter(E, v) ==
    IF IsPrim(v) THEN v ELSE IF v \in DOMAIN E.som THEN E.som[v] ELSE NoCounterpart

ToInner(E, v) ==
    IF IsPrim(v) THEN v ELSE IF v \in DOMAIN E.rom THEN E.rom[v] ELSE NoCounterpart

\* the calls of f in the log of E
CallsOf(E, f) == SelectSeq(E.calls, LAMBDA c : c.f = f)

\* the apply trap of p went from the inner realm to the real function and
\* back: r is what it returned
SecureApplied(r, f, thisArg, args) ==
    /\ Len(CallsOf(r.e, f)) = 1
    /\ CallsOf(r.e, f)[1].this = ToOuter(r.e, thisArg)
    /\ CallsOf(r.e, f)[1].args = [i \in 1..Len(args) |-> ToOuter(r.e, args[i])]
    /\ CallsOf(r.e, f)[1].k = r.k
    /\ r.k = "return" => r.v = ToInner(r.e, CallsOf(r.e, f)[1].v)

ReverseApplied(r, f, thisArg, args) ==
    /\ Len(CallsOf(r.e, f)) = 1
    /\ CallsOf(r.e, f)[1].this = ToInner(r.e, thisArg)
    /\ CallsOf(r.e, f)[1].args = [i \in 1..Len(args) |-> ToInner(r.e, args[i])]
    /\ CallsOf(r.e, f)[1].k = r.k
    /\ r.k = "return" => r.v = ToOuter(r.e, CallsOf(r.e, f)[1].v)

\* C19: the apply trap of either handler calls the real function exactly
\* once, with the counterparts of thisArg and of every argument, and returns
\* the counterpart of what the function returned; when the function throws,
\* the trap throws.  This holds of the apply that has just run and of every
\* apply, with or without thisArg, that could run next.
C19_ApplyContract ==
    /\ last.op = "apply"
          => SecureApplied([e |-> env, k |-> last.k, v |-> last.v],
                           env.px[last.p].target, Undefined, last.args)
    /\ last.op = "reverseApply"
          => ReverseApplied([e |-> env, k |-> last.k, v |-> last.v],
                            env.px[last.p].target, Undefined, last.args)
    /\ \A p \in SecureProxies(env) : isFunction(env, p) =>
          \A thisArg \in {Undefined, GlobalProxy("obj")}, args \in InnerArgs :
             SecureApplied(SecureProxyHandler_apply(Begin(env), p, thisArg, args),
                           env.px[p].target, thisArg, args)
    /\ \A p \in ReverseProxies(env) : isFunction(env, p) =>
          \A thisArg \in {Undefined, Obj("Obj")}, args \in OuterArgs :
             ReverseApplied(ReverseProxyHandler_apply(Begin(env), p, thisArg, args),
                            env.px[p].target, thisArg, args)

C19_Witness ==
    /\ last.op = "apply" /\ last.k = "return"
    /\ last.args = <<Obj("IObj")>>
    /\ Len(env.calls) = 1
    /\ env.calls[1].f = env.px[last.p].target
    /\ env.calls[1].args = <<env.som[Obj("IObj")]>>
    /\ env.calls[1].v = env.som[Obj("IObj")]
    /\ last.v = Obj("IObj")

\* the descriptor the set trap of p resolves for key (part_000:185), after
\* p is initialized
Resolved(E, p, key) == getPropertyDescriptor(initialize(E, p), ShadowRef(p), key)

\* the trap is to refuse: a data property that is not writable, an
\* accessor without a setter, or no property and a shadow target that is
\* not extensible
Refused(E, p, key) ==
    IF isUndefined(Resolved(E, p, key).v)
    THEN ~Resolved(E, p, key).e.px[p].shadow.ext
    ELSE IF Resolved(E, p, key).v.k = "data"
         THEN ~Resolved(E, p, key).v.w
         ELSE ~isFunction(Resolved(E, p, key).e, Resolved(E, p, key).v.set)

HasSetter(E, p, key) ==
    /\ ~isUndefined(Resolved(E, p, key).v)
    /\ Resolved(E, p, key).v.k = "acc"
    /\ isFunction(Resolved(E, p, key).e, Resolved(E, p, key).v.set)

\* C20: a set the trap is to refuse returns false and leaves every shadow
\* target as the resolution of the descriptor left it; any other set
\* returns true, after the setter was called with the receiver and the
\* value or with the value now the one the proxy's shadow target holds for
\* the key.
C20_SetContract ==
    [][(ops' = ops + 1 /\ last'.op = "set") =>
         IF Refused(Begin(env), last'.p, last'.key)
         THEN /\ last'.k = "return" /\ last'.v = Bool(FALSE)
              /\ env' = Resolved(Begin(env), last'.p, last'.key).e
         ELSE /\ last'.k = "return" /\ last'.v = Bool(TRUE)
              /\ IF HasSetter(Begin(env), last'.p, last'.key)
                 THEN \E i \in 1..Len(env'.calls) :
                        /\ env'.calls[i].this = ToOuter(env', last'.p)
                        /\ env'.calls[i].args = <<ToOuter(env', last'.args[1])>>
                 ELSE /\ last'.key \in DOMAIN env'.px[last'.p].shadow.props
                      /\ env'.px[last'.p].shadow.props[last'.key].k = "data"
                      /\ env'.px[last'.p].shadow.props[last'.key].value
                            = last'.args[1]]_vars

\* the mutability state of a shape, and the one a snapshot records
MutabilityOf(s) ==
    IF ShapeIsFrozen(s) THEN "frozen"
    ELSE IF ShapeIsSealed(s) THEN "sealed"
    ELSE IF ~s.ext THEN "nonExtensible" ELSE "extensible"

SnapshotMutability(meta) ==
    IF meta.isFrozen THEN "frozen"
    ELSE IF meta.isSealed THEN "sealed"
    ELSE IF ~meta.isExtensible THEN "nonExtensible" ELSE "extensible"

\* the traps that change nothing but what initialize installs
ReadOps ==
    {"get", "getOwnPropertyDescriptor", "getPrototypeOf", "has", "ownKeys",
     "isExtensible"}

SecureMirrored ==
    /\ \A p \in SecureProxies(env) :
          ~env.px[p].init
             => MutabilityOf(initialize(env, p).px[p].shadow)
                   = SnapshotMutability(env.px[p].meta)
    /\ (ops = 1 /\ last.op \in ReadOps)
          => MutabilityOf(env.px[last.p].shadow)
                = SnapshotMutability(env.px[last.p].meta)

\* C21 as stated: after initialize has run, the shadow target of a handler
\* of either direction is frozen, sealed, non-extensible or extensible as
\* its snapshot is.
C21_MutabilityBothDirections ==
    /\ SecureMirrored
    /\ \A p \in ReverseProxies(env) :
          MutabilityOf(ReverseProxyHandler_initialize(env, p).px[p].shadow)
             = SnapshotMutability(env.px[p].meta)

\* C21, amended: after initialize has run, the shadow target of an
\* outer-to-inner handler is frozen, sealed, non-extensible or extensible as
\* its snapshot is; the shadow target of an inner-to-outer handler is
\* frozen whatever its snapshot is.
C21_MutabilityMirrored ==
    /\ SecureMirrored
    /\ \A p \in ReverseProxies(env) :
          MutabilityOf(ReverseProxyHandler_initialize(env, p).px[p].shadow)
             = "frozen"

C21_Witness ==
    /\ ops = 1 /\ last.op = "isExtensible" /\ last.p = GlobalProxy("obj")
    /\ SnapshotMutability(env.px[last.p].meta) = "sealed"
    /\ MutabilityOf(env.px[last.p].shadow) = "sealed"
    /\ last.v = Bool(FALSE)

\* the definition conflicts with the shadow target s: it asks for a
\* configurable property where s has a non-configurable one, or for a new
\* key where s is not extensible
Conflicts(s, key, descriptor) ==
    IF key \in DOMAIN s.props
    THEN ~s.props[key].c /\ descriptor.c
    ELSE ~s.ext

\* C22: a defineProperty that conflicts with a non-configurable property of
\* the shadow target, or adds a key to a non-extensible shadow target,
\* throws a TypeError of the inner realm, whose code called, and leaves
\* every shadow target as initialize left it; a defineProperty that returns
\* true has put the descriptor on the shadow target.
C22_DefinePropertyFailure ==
    [][(ops' = ops + 1 /\ last'.op = "defineProperty") =>
         /\ Conflicts(initialize(Begin(env), last'.p).px[last'.p].shadow,
                      last'.key, last'.args[1])
               => /\ last'.k = "throw"
                  /\ last'.v.t = "inst"
                  /\ last'.v.id = TypeErrorOf("inner")
                  /\ RealmOf(env', last'.v) = "inner"
                  /\ env' = initialize(Begin(env), last'.p)
         /\ last'.k = "return"
               => /\ last'.v = Bool(TRUE)
                  /\ last'.key \in DOMAIN env'.px[last'.p].shadow.props
                  /\ env'.px[last'.p].shadow.props[last'.key] = last'.args[1]]_vars

C22_Witness ==
    /\ last.op = "defineProperty" /\ last.k = "throw"
    /\ last.p.of = Obj("Frozen") /\ last.key = "z"
    /\ ~env.px[last.p].shadow.ext
    /\ "z" \notin DOMAIN env.px[last.p].shadow.props

\* the proxies of functions whose name cannot be read
Unnamed(E) ==
    {p \in SecureProxies(E) : p.of.t = "obj" /\ p.of.id \in NameUnreadable}

\* C23: a function whose 'name' descriptor cannot be read gets its proxy
\* when it crosses (the getter of obj.g crosses when obj is initialized);
\* the shadow function has no name taken from it, the proxy is a function
\* and calling it calls the function.  A function whose name can be read
\* has it on its shadow function from the start.
C23_UnreadableNameTolerated ==
    /\ env.px[GlobalProxy("obj")].init => Unnamed(env) # {}
    /\ \A p \in Unnamed(env) :
          /\ isFunction(env, p)
          /\ "name" \notin DOMAIN env.px[p].shadow.props
          /\ SecureProxyHandler_apply(Begin(env), p, Prim("1"), <<>>).k = "return"
          /\ SecureProxyHandler_apply(Begin(env), p, Prim("1"), <<>>).v = Prim("1")
    /\ "name" \in DOMAIN env.px[GlobalProxy("thrower")].shadow.props
    /\ env.px[GlobalProxy("thrower")].shadow.props["name"].value = Prim("thrower")

C23_Witness ==
    /\ last.op = "get" /\ last.p = GlobalProxy("obj") /\ last.key = "g"
    /\ last.k = "return"
    /\ Unnamed(env) # {}
    /\ \A p \in Unnamed(env) :
          /\ "name" \notin DOMAIN env.px[p].shadow.props
          /\ Len(CallsOf(env, p.of)) = 1

====
